---- MODULE Spec2Model ----
(***************************************************************************)
(* Inference session of the diffusion sampler (src/src/inference.py):      *)
(* class Configs with its schedule coefficients, sample(), _sample_x0(),   *)
(* predict(), show_image(), choose_song_from_val_dl() and the command      *)
(* entry point.  Tensors are abstracted to identities (id, batch rows,     *)
(* in-place version); every call made to a collaborator (torch.randn,      *)
(* model.q_sample, model.p_sample, plt.imsave, prmat2c_to_midi_file) is    *)
(* appended to `trace` in program order.  Schedule values are exact        *)
(* rationals <<numerator, denominator>>.  The loop calls                   *)
(* self.model.p_sample, an external collaborator; the method               *)
(* Configs.p_sample is called by neither sample nor predict and no action  *)
(* stands for it.                                                          *)
(***************************************************************************)
EXTENDS Integers, Sequences, FiniteSets, TLC

\* ---------------------------------------------------------------- bounds
\* largest params.n_steps of a modelled session
MaxT == 3
\* schedule values are k / BetaDen, 0 < k < BetaDen
BetaDen == 5
\* datetime.now() is read as one of 0..MaxClock
MaxClock == 1
\* the validation split lists songs 1..MaxSongs
MaxSongs == 2
\* a conditioning tensor has 1..MaxRows batch rows
MaxRows == 2

\* ------------------------------------------------------ program constants
\* Python's None for the optional init_step argument
NoneVal == -1
\* default n_samples of sample() and of predict()
SampleDefaultN == 1
PredictDefaultN == 16
\* predict(n_samples=16, init_cond=False, init_step=100) of the entry point
MainInitStep == 100
\* tensor geometry (B, 2, 32, 128)
image_channels == 2
image_size_h == 32
image_size_w == 128

\* ------------------------------------------------------ exact rationals
RECURSIVE GCD(_, _)
GCD(a, b) == IF b = 0 THEN a ELSE GCD(b, a % b)

Rat(n, d) == LET g == GCD(n, d) IN <<n \div g, d \div g>>

One == Rat(1, 1)
Zero == Rat(0, 1)
RMul(a, b) == Rat(a[1] * b[1], a[2] * b[2])
RSub(a, b) == Rat(a[1] * b[2] - b[1] * a[2], a[2] * b[2])
RDiv(a, b) == Rat(a[1] * b[2], a[2] * b[1])
RLe(a, b) == a[1] * b[2] <= b[1] * a[2]
RLt(a, b) == a[1] * b[2] < b[1] * a[2]

\* ------------------------------------------------ schedule coefficients
\* values a schedule entry may take: the open interval (0,1) on a grid
BetaValues == { Rat(k, BetaDen) : k \in 1..(BetaDen - 1) }

\* diffusion.alpha = 1 - beta
Alpha(b) == [i \in 1..Len(b) |-> RSub(One, b[i])]

\* diffusion.alpha_bar = cumprod(alpha)
RECURSIVE CumProd(_)
CumProd(s) ==
    IF s = <<>> THEN <<>>
    ELSE LET p == CumProd(SubSeq(s, 1, Len(s) - 1))
         IN  Append(p, IF p = <<>> THEN s[Len(s)]
                       ELSE RMul(p[Len(p)], s[Len(s)]))

\* a plausible slip: the shifted sequence is not shifted at all
AlphaBarTm1Unshifted(ab) == ab

\* alpha_bar_tm1 = cat([alpha_bar.new_ones((1,)), alpha_bar[:-1]])
AlphaBarTm1(ab) == <<One>> \o SubSeq(ab, 1, Len(ab) - 1)

\* beta_tilde = beta * (1 - alpha_bar_tm1) / (1 - alpha_bar)
BetaTilde(b, tm1, ab) ==
    [i \in 1..Len(b) |-> RDiv(RMul(b[i], RSub(One, tm1[i])), RSub(One, ab[i]))]

\* mu_tilde_coef1 = beta * alpha_bar_tm1**0.5 / (1 - alpha_bar); the square
\* root is kept symbolic: the value is sqrt(rad) * fac
MuTildeCoef1(b, tm1, ab) ==
    [i \in 1..Len(b) |-> [rad |-> tm1[i], fac |-> RDiv(b[i], RSub(One, ab[i]))]]

\* mu_tilde_coef2 = alpha**0.5 * (1 - alpha_bar_tm1) / (1 - alpha_bar)
MuTildeCoef2(a, tm1, ab) ==
    [i \in 1..Len(a) |->
        [rad |-> a[i], fac |-> RDiv(RSub(One, tm1[i]), RSub(One, ab[i]))]]

\* ------------------------------------------------------------- tensors
Sample(i, rows) == [id |-> i, n |-> rows, ver |-> 0]
NoSample == [id |-> -1, n |-> 0, ver |-> 0]

\* tensor.new_full((n,), v, dtype=long)
NewFull(n, v) == [i \in 1..n |-> v]

\* ------------------------------------------------------------- labels
\* f"exp/x{k}.jpg" and f"exp/x{k}.mid"
StepTitle(k, ext) == <<"exp/x", k, ext>>
\* f"exp/ddpm_prmat2c_[uncond]_{now}.mid", f"exp/ddpm_prmat2c_init_[{song}]_{now}.mid"
StampTitle(tag, now) == <<"exp/ddpm_prmat2c_", tag, now, ".mid">>
OriginTitle == <<"exp/origin_x.mid">>
IsTimestamped(title) == Len(title) = 4

VARIABLES
    n_steps, beta, alpha, alpha_bar, beta_tilde,
    mu_tilde_coef1, mu_tilde_coef2, sigma2,
    pc, call, init_cond, init_step, xt, loop_n, iter, t_, t, x0, result,
    song_fn, err, trace, nid

coefs == <<n_steps, beta, alpha, alpha_bar, beta_tilde,
           mu_tilde_coef1, mu_tilde_coef2, sigma2>>
vars == <<n_steps, beta, alpha, alpha_bar, beta_tilde,
          mu_tilde_coef1, mu_tilde_coef2, sigma2,
          pc, call, init_cond, init_step, xt, loop_n, iter, t_, t, x0, result,
          song_fn, err, trace, nid>>

NoCall == [fn |-> "none", n_samples |-> 0, cond |-> FALSE, init_step |-> NoneVal]

\* one collaborator call, in program order
Event(op, by, x, tv, out, title) ==
    [op |-> op, by |-> by, x |-> x, t |-> tv, out |-> out, title |-> title]

\* Configs.__init__: the session after construction, nothing called yet
Init ==
    /\ \E T \in 1..MaxT : \E b \in [1..T -> BetaValues] :
         LET a == Alpha(b)
             ab == CumProd(a)
             tm1 == AlphaBarTm1(ab)
         IN  /\ n_steps = T
             /\ beta = b
             /\ alpha = a
             /\ alpha_bar = ab
             /\ beta_tilde = BetaTilde(b, tm1, ab)
             /\ mu_tilde_coef1 = MuTildeCoef1(b, tm1, ab)
             /\ mu_tilde_coef2 = MuTildeCoef2(a, tm1, ab)
             /\ sigma2 = b
    /\ pc = "idle"
    /\ call = NoCall
    /\ init_cond = NoSample
    /\ init_step = NoneVal
    /\ xt = NoSample
    /\ loop_n = 0
    /\ iter = 0
    /\ t_ = NoneVal
    /\ t = NoneVal
    /\ x0 = NoSample
    /\ result = NoSample
    /\ song_fn = 0
    /\ err = "none"
    /\ trace = <<>>
    /\ nid = 0

\* ------------------------------------------------------ helpers of sample()
\* `if init_cond is not None`
HasCond(c) == c # NoSample

\* a plausible slip: the check is missing
AssertInitStepMissing(s) == TRUE

\* `assert init_step is not None`
AssertInitStep(s) == s # NoneVal

\* a plausible slip: one timestep per requested sample, not per batch row
QSampleTPerNSamples(c, s) == NewFull(call.n_samples, s)

\* `init_cond.new_full((init_cond.shape[0], ), init_step, dtype=torch.long)`
QSampleT(c, s) == NewFull(c.n, s)

\* `init_step or self.n_steps`: None and 0 are both falsy
OrDefault(s, n) == IF s = NoneVal \/ s = 0 THEN n ELSE s

\* model.q_sample gathers alpha_bar at t: an index outside 0..n_steps-1 is
\* outside the schedule, and the collaborator may raise or return
QSampleInRange(tv, n) == \A i \in DOMAIN tv : tv[i] \in 0..(n - 1)

\* --------------------------------------------------- helpers of _sample_x0
\* a plausible slip: the timestep is off by one
TimestepOfNoMinusOne(n, i) == n - i

\* `t = n_steps - t_ - 1`
TimestepOf(n, i) == n - i - 1

\* `if t_ % 100 == 0 or (t_ >= 900 and t_ % 25 == 0)`
ShouldSnapshot(i) == i % 100 = 0 \/ (i >= 900 /\ i % 25 = 0)

\* f"exp/x{t}.jpg"
SnapshotImageTitle(tt) == StepTitle(tt, ".jpg")
\* f"exp/x{t + 1}.mid"
SnapshotMidiTitle(tt) == StepTitle(tt + 1, ".mid")

\* a plausible slip: the exception is swallowed and the loop goes on
OnPSampleErrorSwallowed == "snap"

\* no handler surrounds the model.p_sample call: an exception leaves
\* _sample_x0, sample and predict
OnPSampleError == "failed"

\* a plausible slip: the clip is done in place (img.clip_)
AfterShowImageInPlace(img) == [img EXCEPT !.ver = 1]

\* show_image works on copies (img.clip, .cpu().numpy()): the caller's
\* tensor is the one it passed
AfterShowImage(img) == img

\* ----------------------------------------------------- helpers of predict
\* a plausible slip: init_step is forwarded to the unconditional sample
UncondInitStepForwarded(s) == s

\* `self.sample(n_samples)`: init_step is not forwarded
UncondInitStep(s) == NoneVal

\* "exp/x0.jpg"
FinalImageTitle == StepTitle(0, ".jpg")
\* a plausible slip: the note file is named like the image
FinalMidiTitleFixed(tag, now) == StepTitle(0, ".mid")

\* f"exp/{output_stamp}.mid"
FinalMidiTitle(tag, now) == StampTitle(tag, now)
StampTag == IF call.cond THEN <<"init", song_fn>> ELSE <<"uncond">>

InitStepArgs == {NoneVal} \cup (0..n_steps)
NSampleArgs == {SampleDefaultN, PredictDefaultN}
CondArgs == {NoSample} \cup { Sample(0, r) : r \in 1..MaxRows }
Songs == 1..MaxSongs

\* ------------------------------------------------------------- actions
\* a caller invokes sample(n_samples, init_cond, init_step)
CallSample ==
    /\ pc = "idle"
    /\ \E n \in NSampleArgs, c \in CondArgs, s \in InitStepArgs :
         /\ call' = [fn |-> "sample", n_samples |-> n, cond |-> (c # NoSample),
                     init_step |-> s]
         /\ init_cond' = c
         /\ init_step' = s
         /\ nid' = IF c # NoSample THEN 1 ELSE 0
    /\ pc' = "sample"
    /\ UNCHANGED <<coefs, xt, loop_n, iter, t_, t, x0, result, song_fn, err, trace>>

PredictCall(n, flag, s) ==
    /\ pc = "idle"
    /\ call' = [fn |-> "predict", n_samples |-> n, cond |-> flag, init_step |-> s]
    /\ IF ~flag
       THEN /\ init_step' = UncondInitStep(s)
            /\ pc' = "sample"
       ELSE /\ init_step' = init_step
            /\ pc' = "choose"
    /\ UNCHANGED <<coefs, init_cond, xt, loop_n, iter, t_, t, x0, result,
                   song_fn, err, trace, nid>>

\* a caller invokes predict(n_samples, init_cond, init_step)
Predict ==
    \E n \in NSampleArgs, flag \in BOOLEAN, s \in InitStepArgs : PredictCall(n, flag, s)

\* the command entry point
Main == PredictCall(PredictDefaultN, FALSE, MainInitStep)

\* choose_song_from_val_dl(), then the call sample(n_samples, x_init, init_step)
ChooseSong ==
    /\ pc = "choose"
    /\ \E s \in Songs, rows \in 1..MaxRows :
         LET x_init == Sample(nid, rows)
         IN  /\ song_fn' = s
             /\ trace' = Append(trace,
                    Event("midi", "choose_song_from_val_dl", x_init, <<>>,
                          NoSample, OriginTitle))
             /\ init_cond' = x_init
    /\ init_step' = call.init_step
    /\ nid' = nid + 1
    /\ pc' = "sample"
    /\ UNCHANGED <<coefs, call, xt, loop_n, iter, t_, t, x0, result, err>>

\* sample(): the initial tensor and the loop bound
SampleBegin ==
    /\ pc = "sample"
    /\ IF HasCond(init_cond)
       THEN IF ~AssertInitStep(init_step)
            THEN /\ pc' = "failed"
                 /\ err' = "AssertionError"
                 /\ UNCHANGED <<init_step, xt, loop_n, trace, nid>>
            ELSE LET tv == QSampleT(init_cond, init_step)
                     out == Sample(nid, init_cond.n)
                 IN  \/ /\ trace' = Append(trace,
                               Event("q_sample", "sample", init_cond, tv, out, <<>>))
                        /\ xt' = out
                        /\ nid' = nid + 1
                        /\ init_step' = OrDefault(init_step, n_steps)
                        /\ loop_n' = init_step'
                        /\ pc' = "loop"
                        /\ err' = err
                     \/ /\ ~QSampleInRange(tv, n_steps)
                        /\ trace' = Append(trace,
                               Event("q_sample", "sample", init_cond, tv, NoSample, <<>>))
                        /\ pc' = "failed"
                        /\ err' = "q_sample"
                        /\ UNCHANGED <<init_step, xt, loop_n, nid>>
       ELSE LET shape == <<call.n_samples, image_channels, image_size_h, image_size_w>>
                out == Sample(nid, call.n_samples)
            IN  /\ trace' = Append(trace,
                       Event("randn", "sample", NoSample, shape, out, <<>>))
                /\ xt' = out
                /\ nid' = nid + 1
                /\ init_step' = OrDefault(init_step, n_steps)
                /\ loop_n' = init_step'
                /\ pc' = "loop"
                /\ err' = err
    /\ UNCHANGED <<coefs, call, init_cond, iter, t_, t, x0, result, song_fn>>

\* one iteration of _sample_x0 up to the model.p_sample call
PSample ==
    /\ pc = "loop"
    /\ iter < loop_n
    /\ t_' = iter
    /\ iter' = iter + 1
    /\ t' = TimestepOf(loop_n, t_')
    /\ LET tv == NewFull(xt.n, t')
           out == Sample(nid, xt.n)
       IN  \/ /\ trace' = Append(trace,
                     Event("p_sample", "_sample_x0", xt, tv, out, <<>>))
              /\ xt' = out
              /\ nid' = nid + 1
              /\ pc' = "snap"
              /\ err' = err
           \/ /\ trace' = Append(trace,
                     Event("p_sample", "_sample_x0", xt, tv, NoSample, <<>>))
              /\ pc' = OnPSampleError
              /\ err' = "p_sample"
              /\ UNCHANGED <<xt, nid>>
    /\ UNCHANGED <<coefs, call, init_cond, init_step, loop_n, x0, result, song_fn>>

\* the rest of the iteration: the diagnostic snapshot, when due
Snapshot ==
    /\ pc = "snap"
    /\ IF ShouldSnapshot(t_)
       THEN LET img == AfterShowImage(xt)
            IN  /\ trace' = trace \o
                     << Event("show_image", "_sample_x0", xt, <<>>, NoSample,
                              SnapshotImageTitle(t)),
                        Event("midi", "_sample_x0", img, <<>>, NoSample,
                              SnapshotMidiTitle(t)) >>
                /\ xt' = img
       ELSE UNCHANGED <<trace, xt>>
    /\ pc' = "loop"
    /\ UNCHANGED <<coefs, call, init_cond, init_step, loop_n, iter, t_, t, x0,
                   result, song_fn, err, nid>>

\* the range is exhausted: _sample_x0 returns xt and sample returns x0
LoopExit ==
    /\ pc = "loop"
    /\ iter = loop_n
    /\ x0' = xt
    /\ IF call.fn = "sample"
       THEN /\ result' = xt
            /\ pc' = "done"
       ELSE /\ result' = result
            /\ pc' = "export"
    /\ UNCHANGED <<coefs, call, init_cond, init_step, xt, loop_n, iter, t_, t,
                   song_fn, err, trace, nid>>

\* predict(): the exports of x0 and the return
PredictExport ==
    /\ pc = "export"
    /\ \E now \in 0..MaxClock :
         LET img == AfterShowImage(x0)
         IN  /\ trace' = trace \o
                  << Event("show_image", "predict", x0, <<>>, NoSample,
                           FinalImageTitle),
                     Event("midi", "predict", img, <<>>, NoSample,
                           FinalMidiTitle(StampTag, now)) >>
             /\ x0' = img
             /\ result' = img
    /\ pc' = "done"
    /\ UNCHANGED <<coefs, call, init_cond, init_step, xt, loop_n, iter, t_, t,
                   song_fn, err, nid>>

Next ==
    \/ CallSample
    \/ Predict
    \/ Main
    \/ ChooseSong
    \/ SampleBegin
    \/ PSample
    \/ Snapshot
    \/ LoopExit
    \/ PredictExport

Spec == Init /\ [][Next]_vars

\* ------------------------------------------------------------ properties
PCalls == SelectSeq(trace, LAMBDA e : e.op = "p_sample")
QCalls == SelectSeq(trace, LAMBDA e : e.op = "q_sample")
Transitions == SelectSeq(trace, LAMBDA e : e.op = "p_sample" /\ e.out # NoSample)
FinalExports == SelectSeq(trace, LAMBDA e : e.by = "predict")
Started == pc \in {"loop", "snap", "export", "done"} \/ err \in {"q_sample", "p_sample"}
\* position in trace of the k-th p_sample call
RECURSIVE PosOfP(_, _)
PosOfP(k, from) ==
    IF trace[from].op = "p_sample"
    THEN IF k = 1 THEN from ELSE PosOfP(k - 1, from + 1)
    ELSE PosOfP(k, from + 1)
\* number of p_sample calls among the first m events
PBefore(m) == Len(SelectSeq(SubSeq(trace, 1, m), LAMBDA e : e.op = "p_sample"))

\* C1 (as stated): a completed sample(init_step=S), S in 0..T, has applied
\* exactly S reverse transitions; with init_step absent it has applied T.
C1_ExactlySTransitions ==
    (call.fn = "sample" /\ pc = "done") =>
        Len(Transitions) = (IF call.init_step = NoneVal THEN n_steps
                            ELSE call.init_step)

\* C2: with init_cond set and init_step None the call fails on the assertion
\* before q_sample, any transition, any snapshot; nothing is returned.
C2_AssertBeforeCompute ==
    (call.cond /\ call.init_step = NoneVal) =>
        /\ pc \in {"choose", "sample", "failed"}
        /\ pc = "failed" => err = "AssertionError"
        /\ result = NoSample
        /\ \A k \in 1..Len(trace) : trace[k].by = "choose_song_from_val_dl"

C2_Witness ==
    /\ call.fn = "sample"
    /\ call.cond
    /\ call.init_step = NoneVal
    /\ pc = "failed"
    /\ err = "AssertionError"

\* C3: the timesteps handed to the reverse transition are S-1, S-2, ..., 0
\* in that order, each once; each call receives the tensor the previous one
\* returned; the value returned is the one the t = 0 call produced.
C3_Countdown ==
    LET P == PCalls
    IN  /\ \A k \in 1..Len(P) :
             /\ P[k].t = NewFull(P[k].x.n, loop_n - k)
             /\ loop_n - k >= 0
             /\ k > 1 => P[k].x = P[k - 1].out
        /\ pc = "done" =>
             /\ Len(P) = loop_n
             /\ P[Len(P)].t = NewFull(P[Len(P)].x.n, 0)
             /\ result = P[Len(P)].out

C3_Witness ==
    /\ pc = "done"
    /\ loop_n >= 3
    /\ Len(PCalls) = loop_n

\* C4 (as stated): a completed predict has exported the returned tensor once
\* through each sink, after the loop ended, each under a timestamped name.
C4_EachExportTimestamped ==
    (call.fn = "predict" /\ pc = "done") =>
        LET F == FinalExports
        IN  /\ Len(F) = 2
            /\ F[1].op = "show_image" /\ F[2].op = "midi"
            /\ F[1].x = result /\ F[2].x = result
            /\ IsTimestamped(F[1].title) /\ IsTimestamped(F[2].title)

\* C4 (amended): a completed predict has made, after the loop ended, one
\* image export and one note export of the returned tensor; the note export
\* carries a timestamped name, the image export the fixed name exp/x0.jpg.
\* A predict that has not completed has made neither.
C4_FinalExports ==
    LET F == FinalExports
    IN  /\ pc # "done" => F = <<>>
        /\ (call.fn = "predict" /\ pc = "done") =>
             /\ Len(F) = 2
             /\ F = SubSeq(trace, Len(trace) - 1, Len(trace))
             /\ Len(Transitions) = loop_n
             /\ F[1].op = "show_image" /\ F[2].op = "midi"
             /\ F[1].x = result /\ F[2].x = result
             /\ ~IsTimestamped(F[1].title) /\ F[1].title = <<"exp/x", 0, ".jpg">>
             /\ IsTimestamped(F[2].title) /\ F[2].title[3] \in 0..MaxClock

C4_Witness ==
    /\ call.fn = "predict"
    /\ call.cond
    /\ pc = "done"
    /\ Len(FinalExports) = 2

\* C5: a failing p_sample call ends the run: it is the last call made, it is
\* made once, nothing is returned and predict exports nothing.
C5_FailureAborts ==
    err = "p_sample" =>
        /\ pc = "failed"
        /\ result = NoSample /\ x0 = NoSample
        /\ trace[Len(trace)].op = "p_sample"
        /\ trace[Len(trace)].out = NoSample
        /\ Len(PCalls) = Len(Transitions) + 1
        /\ FinalExports = <<>>

C5_Witness ==
    /\ err = "p_sample"
    /\ call.fn = "predict"
    /\ Len(Transitions) >= 1
    /\ Len(PCalls) < loop_n

\* C6: the shifted cumulative product starts with 1, continues with
\* alpha_bar[t-1], has length T, and 0 <= beta_tilde[t] <= beta[t] with
\* beta_tilde[0] = 0.
C6_PosteriorVariance ==
    LET tm1 == AlphaBarTm1(alpha_bar)
    IN  /\ Len(tm1) = n_steps
        /\ Len(beta) = n_steps /\ Len(beta_tilde) = n_steps
        /\ tm1[1] = One
        /\ \A i \in 2..n_steps : tm1[i] = alpha_bar[i - 1]
        /\ beta_tilde[1] = Zero
        /\ \A i \in 1..n_steps :
             /\ RLt(Zero, beta[i]) /\ RLt(beta[i], One)
             /\ RLe(Zero, beta_tilde[i])
             /\ RLe(beta_tilde[i], beta[i])

C6_Witness ==
    /\ n_steps >= 3
    /\ RLt(Zero, beta_tilde[3])
    /\ RLt(beta_tilde[3], beta[3])
    /\ beta[1] # beta[2]

\* C7 (as stated): a snapshot follows the transition with index i exactly
\* when i % 100 = 0 or (i >= 900 and i % 25 = 0), and both of its artifacts
\* are tagged with that transition's timestep t = S-1-i.
C7_SnapshotTaggedT ==
    /\ \A k \in 1..Len(trace) :
         (trace[k].by = "_sample_x0" /\ trace[k].op \in {"show_image", "midi"}) =>
             /\ PBefore(k) >= 1
             /\ trace[k].title[2] = loop_n - PBefore(k)
             /\ ShouldSnapshot(PBefore(k) - 1)
    /\ \A i \in 1..Len(Transitions) :
         (i < Len(Transitions) \/ pc # "snap") =>
             LET j == PosOfP(i, 1)
             IN  ShouldSnapshot(i - 1) <=>
                   /\ j + 2 <= Len(trace)
                   /\ trace[j + 1].by = "_sample_x0" /\ trace[j + 1].op = "show_image"
                   /\ trace[j + 2].by = "_sample_x0" /\ trace[j + 2].op = "midi"

\* C8: the step that emits a snapshot leaves the current tensor, the current
\* timestep and index, the loop bound and every schedule coefficient as they
\* were, and the exported tensor is the current one.
C8_SnapshotFrame ==
    [][ (pc = "snap" /\ trace' # trace) =>
          /\ xt' = xt
          /\ t' = t /\ t_' = t_ /\ iter' = iter /\ loop_n' = loop_n
          /\ coefs' = coefs
          /\ trace'[Len(trace')].x = xt
          /\ trace'[Len(trace') - 1].x = xt ]_vars

C8_Witness ==
    /\ pc = "loop"
    /\ iter >= 1 /\ iter < loop_n
    /\ trace[Len(trace)].by = "_sample_x0"
    /\ trace[Len(trace)].op = "midi"

\* C9: without init_cond q_sample is never called and the loop starts from
\* one randn draw of shape (n_samples, channels, H, W); with init_cond and
\* init_step = S q_sample is called once, with S for every batch row of
\* init_cond, before any transition, and the loop starts from its result.
C9_ForwardStepOnlyWhenConditioned ==
    /\ Len(QCalls) <= 1
    /\ ~call.cond => QCalls = <<>>
    /\ (~call.cond /\ Started) =>
         /\ trace[1].op = "randn"
         /\ trace[1].t = <<call.n_samples, image_channels, image_size_h, image_size_w>>
         /\ trace[1].out.n = call.n_samples
         /\ PCalls # <<>> => PCalls[1].x = trace[1].out
         /\ \A k \in 2..Len(trace) : trace[k].op # "randn"
    /\ (call.cond /\ Started) =>
         /\ Len(QCalls) = 1
         /\ QCalls[1].x = init_cond
         /\ DOMAIN QCalls[1].t = 1..init_cond.n
         /\ \A r \in 1..init_cond.n : QCalls[1].t[r] = call.init_step
         /\ \A k \in 1..Len(trace) :
              /\ trace[k].op # "randn"
              /\ trace[k].op = "p_sample" =>
                   \E j \in 1..(k - 1) : trace[j].op = "q_sample"
         /\ PCalls # <<>> => PCalls[1].x = QCalls[1].out

C9_Witness ==
    /\ call.cond
    /\ init_cond.n = 2
    /\ call.init_step >= 1
    /\ Len(QCalls) = 1
    /\ Len(PCalls) >= 1

\* C10: predict with the conditioning flag false runs the full T transitions
\* from a noise draw, whatever init_step it was given.
C10_UncondIgnoresInitStep ==
    (call.fn = "predict" /\ ~call.cond) =>
        /\ Started => loop_n = n_steps
        /\ QCalls = <<>>
        /\ pc = "done" =>
             /\ Len(Transitions) = n_steps
             /\ trace[1].op = "randn"
             /\ PCalls[1].x = trace[1].out

C10_Witness ==
    /\ call.fn = "predict"
    /\ ~call.cond
    /\ call.init_step = MainInitStep
    /\ call.n_samples = PredictDefaultN
    /\ pc = "done"
    /\ n_steps >= 2
====
